---- MODULE Spec2Model ----
(***************************************************************************)
(* wagtail-import-export: the page import of wagtailimportexport/importing *)
(* (import_pages_by_url and the functions it calls), as a state machine:   *)
(* Spec is import_pages_by_url called on its own, CallerSpec is the        *)
(* importcontent command and the view import_from_file, which call it and  *)
(* then import_snippets and import_images.                                 *)
(*                                                                         *)
(* Representation of the Python values:                                    *)
(*   - a page path is the sequence of its characters (digits), four per    *)
(*     tree segment, so that path[:-4] is a real slice;                    *)
(*   - None is 0 where the other values are page ids (ids start at 1);     *)
(*   - a JSON value inside a StreamField is [kind, v]: kind is the Python  *)
(*     type of the value ("int", "str", "dict", "list", "NoneType");       *)
(*   - rich text (a str of markup) is the sequence of its nodes, each node *)
(*     [tag, id, linktype, min, text]: min says the tag is written         *)
(*     minimized (<br/>), which canonical XML never writes;                *)
(*   - a block of a StreamField schema is [kind, child_blocks]: kind is    *)
(*     the block's class.                                                  *)
(***************************************************************************)
EXTENDS Integers, Sequences, FiniteSets, TLC

\* Bounds of the model.
MaxPages == 2        \* page records in one content.json
MaxPk == 2           \* page ids 1..MaxPk occur in the export and the destination

\* The width of one path segment (Page.steplen), as first_page_path[:-4] has it.
steplen == 4

None == 0

Segments == {1, 2}
Ids == 1..MaxPk

Segment(n) == <<0, 0, 0, n>>
RootPath == Segment(1)

----------------------------------------------------------------------------
(* Sequences *)

Front(s) == SubSeq(s, 1, Len(s) - 1)
Last(s) == s[Len(s)]

\* The element of a singleton. The loops below bind the value of a call as
\* the element of a singleton, {e(r) : r \in {call}}, so that it is computed once.
The(S) == CHOOSE x \in S : TRUE

----------------------------------------------------------------------------
(* Result dicts: {'warnings': [], 'errors': [], 'failures': []} *)

EmptyResult == [warnings |-> <<>>, errors |-> <<>>, failures |-> <<>>]

\* for key in res: result[key] += res[key]
MergeResult(result, res) ==
    [warnings |-> result.warnings \o res.warnings,
     errors   |-> result.errors \o res.errors,
     failures |-> result.failures \o res.failures]

----------------------------------------------------------------------------
(* testapp.models.TestPage and wagtailcore.Page: the declared fields *)

PageChooserBlock == [kind |-> "PageChooserBlock", child_blocks |-> <<>>]
RichTextBlock == [kind |-> "RichTextBlock", child_blocks |-> <<>>]

\* child_blocks is an ordered dict: a sequence of [name, block]
StructBlock(children) == [kind |-> "StructBlock", child_blocks |-> children]
StreamBlock(children) == [kind |-> "StreamBlock", child_blocks |-> children]

ChildNames(block) == {block.child_blocks[k].name : k \in 1..Len(block.child_blocks)}
ChildBlock(block, name) ==
    (CHOOSE c \in {block.child_blocks[k] : k \in 1..Len(block.child_blocks)} :
        c.name = name).block

\* TestPage.body
TestPageBody ==
    StreamBlock(<<
        [name |-> "content", block |-> RichTextBlock],
        [name |-> "link", block |-> PageChooserBlock],
        [name |-> "struct", block |-> StructBlock(<<
            [name |-> "link", block |-> PageChooserBlock],
            [name |-> "content", block |-> RichTextBlock]>>)],
        [name |-> "stream", block |-> StreamBlock(<<
            [name |-> "link", block |-> PageChooserBlock],
            [name |-> "content", block |-> RichTextBlock]>>)]
    >>)

\* Model._meta.fields by field name, restricted to the keys a page record
\* carries. related_model is the class the foreign key points to; null is
\* the field's null option.
PlainField == [class |-> "Field", related_model |-> ""]
PageFields ==
    [path |-> PlainField, depth |-> PlainField, numchild |-> PlainField,
     title |-> PlainField, slug |-> PlainField,
     content_type |-> [class |-> "ForeignKey", related_model |-> "ContentType", null |-> FALSE],
     live_revision |-> [class |-> "ForeignKey", related_model |-> "PageRevision", null |-> TRUE]]
TestPageFields ==
    PageFields @@
    [text |-> [class |-> "RichTextField", related_model |-> ""],
     link |-> [class |-> "ForeignKey", related_model |-> "Page", null |-> TRUE],
     body |-> [class |-> "StreamField", related_model |-> "", stream_block |-> TestPageBody]]

\* '.'.join([page_record['app_label'], page_record['model']])
ModelKey(page_record) == <<page_record.app_label, page_record.model>>

\* apps.get_model(model_key)._meta.fields
ModelFields(model_key) ==
    IF model_key = <<"testapp", "testpage">> THEN TestPageFields ELSE PageFields

\* page.__class__._meta.fields
ClassFields(class) == IF class = "TestPage" THEN TestPageFields ELSE PageFields

ModelClass(model_key) == IF model_key = <<"testapp", "testpage">> THEN "TestPage" ELSE "Page"

----------------------------------------------------------------------------
(* Python objects as isinstance sees them *)

\* field.__dict__.get('related_model'): the related model CLASS of a relation
\* field, None for every other field
related_model_attr(field) ==
    IF field.related_model = ""
    THEN [kind |-> "NoneType", name |-> ""]
    ELSE [kind |-> "type", name |-> field.related_model]

\* isinstance(obj, Page): obj is an instance of Page or of a subclass. A class
\* object is an instance of its metaclass, never of Page.
isinstance_Page(obj) == obj.kind \in {"Page", "TestPage"}

PyInt(n) == [kind |-> "int", v |-> n]
PyStr(s) == [kind |-> "str", v |-> s]
PyNone == [kind |-> "NoneType", v |-> <<>>]
PyList(s) == [kind |-> "list", v |-> s]
PyDict(s) == [kind |-> "dict", v |-> s]

----------------------------------------------------------------------------
(* Messages *)

Message(text, link, type, page, field) ==
    [text |-> text, link |-> link, type |-> type, page |-> page, field |-> field]

\* "Page(id=%d) not found in Page(id=%d).%s in RichText"
RichTextWarning(link_page_id, page_id, field_name) ==
    Message("Page not found in RichText", link_page_id, "", page_id, field_name)

\* "Page(id=%d) not found in Page(id=%d).%s, in StreamBlock=%r"
StreamBlockWarning(link_page_id, page_id, field_name) ==
    Message("Page not found in StreamBlock", link_page_id, "", page_id, field_name)

\* "Block type=%r not found in Page(id=%d).%s in StreamBlock=%r"
BlockTypeWarning(type, page_id, field_name) ==
    Message("Block type not found", None, type, page_id, field_name)

----------------------------------------------------------------------------
(* Rich text *)

Anchor(id) == [tag |-> "a", id |-> id, linktype |-> "page", min |-> FALSE, text |-> ""]
Text(t) == [tag |-> "#text", id |-> None, linktype |-> "", min |-> FALSE, text |-> t]
EmptyElement(tag) == [tag |-> tag, id |-> None, linktype |-> "", min |-> TRUE, text |-> ""]

\* etree.fromstring("<richtext>%s</richtext>" % value): %s of None is the
\* text None
richtext_fromstring(value) ==
    IF value.kind = "NoneType" THEN <<Text("None")>> ELSE value.v

\* //a[@id and @linktype="page"]
is_page_link(node) == node.tag = "a" /\ node.id # None /\ node.linktype = "page"

\* write_c14n: canonical XML writes every element with a start and an end tag
richtext_element_to_string(element) ==
    PyStr([k \in 1..Len(element) |-> [element[k] EXCEPT !.min = FALSE]])

\* The loop of update_page_fks_in_rich_text over the selected anchors
RECURSIVE rich_text_anchors(_, _, _, _)
rich_text_anchors(element, page_id, field_name, page_id_map) ==
    IF Len(element) = 0 THEN [element |-> <<>>, result |-> EmptyResult]
    ELSE LET a == Last(element)
         IN  The({
             IF ~is_page_link(a)
             THEN [element |-> Append(head.element, a), result |-> head.result]
             ELSE IF a.id \in DOMAIN page_id_map
             THEN [element |-> Append(head.element, [a EXCEPT !.id = page_id_map[a.id]]),
                   result |-> head.result]
             ELSE [element |-> Append(head.element, a),
                   result |-> [head.result EXCEPT !.warnings =
                                  Append(@, RichTextWarning(a.id, page_id, field_name))]] :
             head \in {rich_text_anchors(Front(element), page_id, field_name, page_id_map)}})

update_page_fks_in_rich_text(value, page_id, field_name, page_id_map) ==
    The({[value |-> richtext_element_to_string(r.element), result |-> r.result] :
         r \in {rich_text_anchors(richtext_fromstring(value), page_id, field_name, page_id_map)}})

----------------------------------------------------------------------------
(* StreamField data *)

RECURSIVE update_page_fks_in_stream_data(_, _, _, _, _)
RECURSIVE update_page_fks_in_block(_, _, _, _, _)
RECURSIVE update_page_fks_in_struct_block(_, _, _, _, _)
RECURSIVE struct_block_children(_, _, _, _, _, _)

\* The loop as it would be if a block of an undeclared type were dropped
update_page_fks_in_stream_data_drops(stream_data, stream_block, page_id, field_name, page_id_map) ==
    IF Len(stream_data) = 0 THEN [value |-> <<>>, result |-> EmptyResult]
    ELSE LET block_data == Last(stream_data)
         IN  The({
             IF block_data.type \in ChildNames(stream_block)
             THEN The({[value |-> Append(head.value, r.value),
                        result |-> MergeResult(head.result, r.result)] :
                       r \in {update_page_fks_in_block(
                                  block_data, ChildBlock(stream_block, block_data.type),
                                  page_id, field_name, page_id_map)}})
             ELSE [value |-> head.value,
                   result |-> [head.result EXCEPT !.warnings =
                                  Append(@, BlockTypeWarning(block_data.type, page_id, field_name))]] :
             head \in {update_page_fks_in_stream_data(
                           Front(stream_data), stream_block, page_id, field_name, page_id_map)}})

\* stream_data: the list of block_data dicts {'type', 'value'}
update_page_fks_in_stream_data(stream_data, stream_block, page_id, field_name, page_id_map) ==
    IF Len(stream_data) = 0 THEN [value |-> <<>>, result |-> EmptyResult]
    ELSE LET block_data == Last(stream_data)
         IN  The({
             IF block_data.type \in ChildNames(stream_block)
             THEN The({[value |-> Append(head.value, r.value),
                        result |-> MergeResult(head.result, r.result)] :
                       r \in {update_page_fks_in_block(
                                  block_data, ChildBlock(stream_block, block_data.type),
                                  page_id, field_name, page_id_map)}})
             ELSE [value |-> Append(head.value, block_data),
                   result |-> [head.result EXCEPT !.warnings =
                                  Append(@, BlockTypeWarning(block_data.type, page_id, field_name))]] :
             head \in {update_page_fks_in_stream_data(
                           Front(stream_data), stream_block, page_id, field_name, page_id_map)}})

\* The isinstance chain on block; a block that is none of the four classes
\* (also a value that is no block at all) falls through with block_data as given.
update_page_fks_in_block(block_data, block, page_id, field_name, page_id_map) ==
    IF block.kind = "PageChooserBlock"
    THEN LET link_page_id == block_data.value.v
         IN  IF link_page_id \in DOMAIN page_id_map
             THEN [value |-> [block_data EXCEPT !.value = PyInt(page_id_map[link_page_id])],
                   result |-> EmptyResult]
             ELSE [value |-> block_data,
                   result |-> [EmptyResult EXCEPT !.warnings =
                                  <<StreamBlockWarning(link_page_id, page_id, field_name)>>]]
    ELSE IF block.kind = "RichTextBlock"
    THEN The({[value |-> [block_data EXCEPT !.value = r.value], result |-> r.result] :
              r \in {update_page_fks_in_rich_text(
                         block_data.value, page_id, field_name, page_id_map)}})
    ELSE IF block.kind = "StructBlock"
    THEN update_page_fks_in_struct_block(block_data, block, page_id, field_name, page_id_map)
    ELSE IF block.kind = "StreamBlock"
    THEN The({[value |-> [block_data EXCEPT !.value = PyList(r.value)], result |-> r.result] :
              r \in {update_page_fks_in_stream_data(
                         block_data.value.v, block, page_id, field_name, page_id_map)}})
    ELSE [value |-> block_data, result |-> EmptyResult]

\* for name in block_data['value']: the children of the struct value, a dict
\* kept as the sequence of its [name, value] items. The call passes
\* (page_id, field_name, child value, child block, page_id_map) to
\* update_page_fks_in_block(block_data, block, page_id, field_name, page_id_map).
struct_block_children(children, block_data, block, page_id, field_name, page_id_map) ==
    IF Len(children) = 0 THEN [value |-> <<>>, result |-> EmptyResult]
    ELSE LET child == Last(children)
         IN  The({
             IF child.name \in ChildNames(block)
             THEN The({[value |-> Append(head.value, [child EXCEPT !.value = r.value]),
                        result |-> MergeResult(head.result, r.result)] :
                       r \in {update_page_fks_in_block(
                                  PyInt(page_id), PyStr(field_name), child.value,
                                  ChildBlock(block, child.name), page_id_map)}})
             ELSE [value |-> Append(head.value, child),
                   result |-> [head.result EXCEPT !.warnings =
                                  Append(@, BlockTypeWarning(block_data.type, page_id, field_name))]] :
             head \in {struct_block_children(
                           Front(children), block_data, block, page_id, field_name, page_id_map)}})

update_page_fks_in_struct_block(block_data, block, page_id, field_name, page_id_map) ==
    The({[value |-> [block_data EXCEPT !.value = PyDict(r.value)], result |-> r.result] :
         r \in {struct_block_children(
                    block_data.value.v, block_data, block, page_id, field_name, page_id_map)}})

\* json.loads(value) ... json.dumps(stream_data): the field value is kept as
\* the JSON value it encodes
update_page_fks_in_streamfield(value, page_id, field_name, page_id_map, page_fields) ==
    LET stream_block == page_fields[field_name].stream_block
    IN  The({[value |-> r.value, result |-> MergeResult(EmptyResult, r.result)] :
             r \in {update_page_fks_in_stream_data(
                        value, stream_block, page_id, field_name, page_id_map)}})

----------------------------------------------------------------------------
(* The destination's Page table *)

\* Page.objects.filter(path=path): the rows at that path (path is unique)
filter_path(objects, path) == {page \in objects : page.path = path}

\* {page.path: page.id for page in Page.objects.all()}
existing_page_id_map_of(objects) ==
    [path \in {page.path : page \in objects} |->
        (CHOOSE page \in objects : page.path = path).id]

MaxId(objects) ==
    CHOOSE n \in {page.id : page \in objects} : \A page \in objects : page.id <= n

----------------------------------------------------------------------------
(* import_pages_by_url: the anchor of the import *)

\* first_page_path[:-4]
first_page_parent_path(first_page_path) ==
    SubSeq(first_page_path, 1, Len(first_page_path) - steplen)

\* The condition as it would be if the parent path were not consulted
anchor_missing_without_parent(content_data, objects) ==
    filter_path(objects, content_data.pages[1].content.path) = {}

\* The condition as it would be if it never held
anchor_missing_never(content_data, objects) == FALSE

\* first_page is None and first_page_parent is None
anchor_missing(content_data, objects) ==
    LET first_page_path == content_data.pages[1].content.path
    IN  /\ filter_path(objects, first_page_path) = {}
        /\ filter_path(objects, first_page_parent_path(first_page_path)) = {}

\* The failure message names the title and the slug of the first page
AnchorFailure(first_page_content) ==
    Message("Pages could not be imported because the path to the first page could not be located",
            None, first_page_content.title, None, first_page_content.slug)

----------------------------------------------------------------------------
(* update_page_ids *)

\* The loop body as it would be if the pk of a matched record were kept
update_page_id_keeps_pk(page_content, existing_page_id_map, page_id_map) ==
    IF page_content.path \in DOMAIN existing_page_id_map
    THEN [page_content |-> page_content,
          page_id_map |-> (page_content.pk :> existing_page_id_map[page_content.path])
                          @@ page_id_map]
    ELSE [page_content |-> page_content,
          page_id_map |-> (page_content.pk :> page_content.pk) @@ page_id_map]

\* The loop body as it would be if a record without a match got no entry
update_page_id_skips_unmatched(page_content, existing_page_id_map, page_id_map) ==
    IF page_content.path \in DOMAIN existing_page_id_map
    THEN [page_content |-> [page_content EXCEPT !.pk = existing_page_id_map[page_content.path]],
          page_id_map |-> (page_content.pk :> existing_page_id_map[page_content.path])
                          @@ page_id_map]
    ELSE [page_content |-> page_content, page_id_map |-> page_id_map]

\* The body of the loop, for one page record
update_page_id(page_content, existing_page_id_map, page_id_map) ==
    IF page_content.path \in DOMAIN existing_page_id_map
    THEN LET existing_page_id == existing_page_id_map[page_content.path]
         IN  [page_content |-> [page_content EXCEPT !.pk = existing_page_id],
              page_id_map |-> (page_content.pk :> existing_page_id_map[page_content.path])
                              @@ page_id_map]
    ELSE [page_content |-> page_content,
          page_id_map |-> (page_content.pk :> page_content.pk) @@ page_id_map]

RECURSIVE update_page_ids_loop(_, _)
update_page_ids_loop(pages, existing_page_id_map) ==
    IF Len(pages) = 0 THEN [pages |-> <<>>, page_id_map |-> <<>>]
    ELSE LET page_record == Last(pages)
         IN  The({
             The({[pages |-> Append(head.pages, [page_record EXCEPT !.content = r.page_content]),
                   page_id_map |-> r.page_id_map] :
                  r \in {update_page_id(page_record.content, existing_page_id_map,
                                        head.page_id_map)}}) :
             head \in {update_page_ids_loop(Front(pages), existing_page_id_map)}})

update_page_ids(content_data, objects) ==
    The({[content_data |-> [content_data EXCEPT !.pages = r.pages],
          page_id_map |-> r.page_id_map] :
         r \in {update_page_ids_loop(content_data.pages, existing_page_id_map_of(objects))}})

----------------------------------------------------------------------------
(* update_page_foreign_keys *)

\* The order of the keys of a page record's content
ContentKeyOrder ==
    <<"pk", "path", "depth", "numchild", "title", "slug", "link", "text", "body",
      "content_type", "live_revision">>

ContentKeys(page_content) ==
    SelectSeq(ContentKeyOrder, LAMBDA name : name \in DOMAIN page_content)

\* field, results and model_key are no names of this function, and result is
\* never assigned: the return statement (or field.null before it) raises
\* NameError on every path
update_page_fks_in_field(value, page_id, field_name, page_id_map) ==
    [value |-> IF value \in DOMAIN page_id_map THEN page_id_map[value] ELSE value,
     result |-> EmptyResult,
     raised |-> "NameError"]

\* for field_name, value in page_content.items()
RECURSIVE update_page_content(_, _, _, _)
update_page_content(keys, page_content, model_fields, page_id_map) ==
    IF Len(keys) = 0 THEN [page_content |-> page_content, result |-> EmptyResult, raised |-> ""]
    ELSE LET field_name == Last(keys)
             value == page_content[field_name]
             page_id == page_content.pk
         IN  The({
             IF head.raised # "" \/ field_name \notin DOMAIN model_fields THEN head
             ELSE LET field == model_fields[field_name]
                  IN  The({[page_content |-> [head.page_content EXCEPT ![field_name] = r.value],
                            result |-> MergeResult(head.result, r.result),
                            raised |-> r.raised] :
                           r \in {
                           IF isinstance_Page(related_model_attr(field))
                           THEN update_page_fks_in_field(value, page_id, field_name, page_id_map)
                           ELSE IF field.class = "RichTextField"
                           THEN update_page_fks_in_rich_text(value, page_id, field_name, page_id_map)
                                    @@ [raised |-> ""]
                           ELSE IF field.class = "StreamField"
                           THEN update_page_fks_in_streamfield(
                                    value, page_id, field_name, page_id_map, model_fields)
                                    @@ [raised |-> ""]
                           ELSE [value |-> value, result |-> EmptyResult, raised |-> ""]}}) :
             head \in {update_page_content(Front(keys), page_content, model_fields, page_id_map)}})

\* for index, page_record in enumerate(content_data['pages'])
RECURSIVE update_page_records(_, _)
update_page_records(pages, page_id_map) ==
    IF Len(pages) = 0 THEN [pages |-> <<>>, results |-> EmptyResult, raised |-> ""]
    ELSE LET page_record == Last(pages)
             model_key == ModelKey(page_record)
         IN  The({
             IF head.raised # "" THEN head
             ELSE The({[pages |-> Append(head.pages,
                                         [page_record EXCEPT !.content = r.page_content]),
                        results |-> MergeResult(head.results, r.result),
                        raised |-> r.raised] :
                       r \in {update_page_content(
                                  ContentKeys(page_record.content), page_record.content,
                                  ModelFields(model_key), page_id_map)}}) :
             head \in {update_page_records(Front(pages), page_id_map)}})

\* content_data[index] = page_record adds the keys 0..n-1 to content_data
update_page_foreign_keys(content_data, page_id_map) ==
    The({[content_data |-> [content_data EXCEPT
                               !.pages = r.pages \o SubSeq(content_data.pages, Len(r.pages) + 1,
                                                           Len(content_data.pages)),
                               !.int_keys = @ \cup {k - 1 : k \in 1..Len(r.pages)}],
          results |-> r.results,
          raised |-> r.raised] :
         r \in {update_page_records(content_data.pages, page_id_map)}})

----------------------------------------------------------------------------
(* import_pages_content: one page record *)

\* The content type of a model, as page_content['content_type'] holds it
ContentType(model_key) == model_key

\* Model(): a new instance, without id. link, content_type and live_revision
\* are the columns link_id, content_type_id and live_revision_id; depth and
\* numchild are the columns of the tree, depth without default and numchild 0.
NewPage(class) ==
    [id |-> None, class |-> class, path |-> <<>>, depth |-> None, numchild |-> 0,
     title |-> "", slug |-> "",
     content_type |-> IF class = "TestPage" THEN <<"testapp", "testpage">>
                                              ELSE <<"wagtailcore", "page">>,
     live_revision |-> None, link |-> None, text |-> PyNone, body |-> <<>>]

\* The conversion as it would be if the value of a nested stream were passed
\* through
stream_data_to_stream_import_data_flat(stream_data, stream_block) ==
    LET declared == SelectSeq(stream_data, LAMBDA b : b.type \in ChildNames(stream_block))
    IN  [k \in 1..Len(declared) |-> [type |-> declared[k].type, value |-> declared[k].value]]

\* only keep 'type' and 'value' of the blocks the schema declares
RECURSIVE stream_data_to_stream_import_data(_, _)
stream_data_to_stream_import_data(stream_data, stream_block) ==
    IF Len(stream_data) = 0 THEN <<>>
    ELSE LET head == stream_data_to_stream_import_data(Front(stream_data), stream_block)
             block_data == Last(stream_data)
             block_type == block_data.type
             block_value == block_data.value
         IN  IF block_type \in ChildNames(stream_block)
             THEN LET child_block == ChildBlock(stream_block, block_type)
                  IN  Append(head,
                          [type |-> block_type,
                           value |-> IF child_block.kind = "StreamBlock"
                                     THEN PyList(stream_data_to_stream_import_data(
                                                     block_value.v, child_block))
                                     ELSE block_value])
             ELSE head

\* page.__dict__[name] = page_content[name] for the names that are fields of
\* the page's class; a StreamField gets its stream_data. A page is the row
\* that save() writes: the value of a foreign key is the attribute name_id,
\* and the entry name of the instance's __dict__ is no part of the row, so
\* that the assignment leaves the foreign keys of the row as they are.
update_page_fields(page, page_content) ==
    LET fields_map == ClassFields(page.class)
    IN  [name \in DOMAIN page |->
            IF name \in DOMAIN page_content /\ name \in DOMAIN fields_map
            THEN IF fields_map[name].class = "StreamField"
                 THEN stream_data_to_stream_import_data(
                          page_content[name], fields_map[name].stream_block)
                 ELSE IF fields_map[name].class = "ForeignKey"
                 THEN page[name]
                 ELSE page_content[name]
            ELSE page[name]]

\* page.save(): a page without id is inserted under the next id of the
\* table's sequence, a page with an id replaces the row of that id
save(objects, page) ==
    LET saved == IF page.id = None THEN [page EXCEPT !.id = MaxId(objects) + 1] ELSE page
    IN  [page |-> saved,
         objects |-> {row \in objects : row.id # saved.id} \cup {saved}]

\* "Existing Page(id=%d) class %s != import class %s"
ClassWarning(page, model_key) ==
    Message("Existing Page class != import class", None, page.class, page.id, ModelClass(model_key))

\* "%s(id=%d) could not be saved: %s"
SaveFailure(model_key, page_id) ==
    Message("could not be saved", None, ModelClass(model_key), page_id, "")

\* existing_pages[page_id] if page_id in existing_pages else Model()
locate_page(objects, existing_pages, page_id, model_key) ==
    IF page_id \in existing_pages
    THEN CHOOSE page \in objects : page.id = page_id
    ELSE NewPage(ModelClass(model_key))

----------------------------------------------------------------------------
(* import_snippets and import_images *)

\* TestSnippet(): text and link (the column link_id) are null by default
NewSnippet == [id |-> None, text |-> PyNone, link_id |-> None]

\* TestSnippet.__str__: re.sub(r'<[^>]+>', '', self.text), the text without
\* its tags; re.sub raises TypeError when the text is None
snippet_str(snippet) ==
    IF snippet.text.kind = "NoneType"
    THEN [value |-> <<>>, raised |-> "TypeError"]
    ELSE [value |-> SelectSeq(snippet.text.v, LAMBDA node : node.tag = "#text"),
          raised |-> ""]

\* The lookup as it would be if a snippet that exists were left as it is
locate_snippet_keeps(objects, snippet_data) ==
    IF \E row \in objects : row.id = snippet_data.id
    THEN CHOOSE row \in objects : row.id = snippet_data.id
    ELSE snippet_data @@ NewSnippet

\* snippet.__dict__.update(**snippet_data) or Snippet(**snippet_data)
locate_snippet(objects, snippet_data) ==
    IF \E row \in objects : row.id = snippet_data.id
    THEN snippet_data @@ (CHOOSE row \in objects : row.id = snippet_data.id)
    ELSE snippet_data @@ NewSnippet

\* for snippet_data in content_data['snippets'][model_key]
RECURSIVE import_snippet_records(_, _)
import_snippet_records(records, objects) ==
    IF Len(records) = 0 THEN [objects |-> objects, imported_snippets |-> <<>>, raised |-> ""]
    ELSE The({
         IF head.raised # "" THEN head
         ELSE LET snippet == locate_snippet(head.objects, Last(records))
                  summary == snippet_str(snippet)
              IN  [objects |-> {row \in head.objects : row.id # snippet.id} \cup {snippet},
                   imported_snippets |-> IF summary.raised = ""
                                         THEN Append(head.imported_snippets, summary.value)
                                         ELSE head.imported_snippets,
                   raised |-> summary.raised] :
         head \in {import_snippet_records(Front(records), objects)}})

\* The document has the snippets of one model, testapp.TestSnippet
import_snippets(content_data, objects) ==
    import_snippet_records(content_data.snippets["testapp.TestSnippet"], objects)

\* Image()
NewImage == [id |-> None, title |-> "", file |-> ""]

\* {key: value for key, value in image_data.items() if key != 'file' and value is not None};
\* the image records of the model have no null values
image_fields(image_data) ==
    [key \in DOMAIN image_data \ {"file"} |-> image_data[key]]

\* for image_data in content_data['images']: the image of that id or a new
\* one gets the fields and the file of the record
RECURSIVE import_images(_, _)
import_images(images, objects) ==
    IF Len(images) = 0 THEN [objects |-> objects, imported_images |-> <<>>]
    ELSE The({
         LET image_data == Last(images)
             located == IF \E row \in head.objects : row.id = image_data.id
                        THEN image_fields(image_data)
                                 @@ (CHOOSE row \in head.objects : row.id = image_data.id)
                        ELSE image_fields(image_data) @@ NewImage
             image == [located EXCEPT !.file = image_data.file.name]
         IN  [objects |-> {row \in head.objects : row.id # image.id} \cup {image},
              imported_images |-> Append(head.imported_images, image.title)] :
         head \in {import_images(Front(images), objects)}})

----------------------------------------------------------------------------
(* The content.json files and the destinations of the model *)

Titles == <<"Home", "About", "Blog", "News">>
Slugs == <<"home", "about", "blog", "news">>

Shapes == {"declared", "undeclared"}

\* A block of stream data: {'type', 'value', 'id'}, id the block's uuid
Block(type, value) == [type |-> type, value |-> value, id |-> "uuid"]

LinkBlock(ref) == Block("link", PyInt(ref))
ContentBlock(ref) == Block("content", PyStr(<<Text("see"), Anchor(ref)>>))

\* A body of the blocks TestPage.body declares, and one with a block type
\* and a struct child it does not declare
Body(shape, ref) ==
    IF shape = "declared"
    THEN <<LinkBlock(ref),
           ContentBlock(ref),
           Block("struct",
                 PyDict(<<[name |-> "link", value |-> PyInt(ref)],
                          [name |-> "content", value |-> PyStr(<<Anchor(ref)>>)]>>)),
           Block("stream", PyList(<<LinkBlock(ref), ContentBlock(ref)>>))>>
    ELSE <<Block("heading", PyStr(<<Text("h")>>)),
           Block("struct", PyDict(<<[name |-> "caption", value |-> PyStr(<<Text("c")>>)]>>)),
           Block("stream", PyList(<<Block("heading", PyStr(<<Text("h")>>)), LinkBlock(ref)>>))>>

PageRecord(i, pk, path, ref, shape) ==
    [app_label |-> "testapp",
     model |-> "testpage",
     content |-> [pk |-> pk, path |-> path, depth |-> Len(path) \div steplen, numchild |-> 0,
                  title |-> Titles[i], slug |-> Slugs[i],
                  link |-> IF shape = "declared" THEN ref ELSE None,
                  text |-> IF shape = "declared"
                           THEN PyStr(<<Anchor(ref), EmptyElement("br")>>)
                           ELSE PyNone,
                  body |-> Body(shape, ref)]]

\* The first page of an export is anywhere in the source tree
FirstPaths ==
    {Segment(a) : a \in Segments} \cup {Segment(a) \o Segment(b) : a, b \in Segments}

\* The pages of an export are ordered by path, each one the first page or a
\* child of an earlier one, with the primary keys and the paths of the source
\* table. An export of n pages is drawn as: the path of the first page, and
\* for each page its pk, the page it refers to, and (after the first) its
\* parent among the earlier pages and its last segment; the pages of one
\* export have their content of one shape.
RECURSIVE PathOf(_, _)
PathOf(e, k) ==
    IF k = 1 THEN e.first ELSE PathOf(e, e.parent[k]) \o Segment(e.segment[k])

ExportDraws(n) ==
    {e \in [first : FirstPaths,
            pk : [1..n -> Ids],
            ref : [1..n -> Ids],
            shape : Shapes,
            parent : [1..n -> 0..(n - 1)],
            segment : [1..n -> Segments]] :
        /\ \A k \in 1..n : e.parent[k] < k /\ (k = 1 => e.segment[k] = 1)
        /\ \A k \in 2..n : e.parent[k] >= 1
        /\ \A k, l \in 1..n : k < l => e.pk[k] # e.pk[l] /\ PathOf(e, k) # PathOf(e, l)}

\* depth and numchild of a record are those of the source tree, of which the
\* export has every page below its first page
Export(e) ==
    [k \in DOMAIN e.pk |->
        [PageRecord(k, e.pk[k], PathOf(e, k), e.ref[k], e.shape) EXCEPT
            !.content.numchild = Cardinality({l \in DOMAIN e.pk : e.parent[l] = k})]]

ExistingPage(id, path, class) ==
    [NewPage(class) EXCEPT !.id = id, !.path = path, !.depth = Len(path) \div steplen,
                           !.title = "Not Home", !.slug = "not-home"]

\* The root page of the destination, alone or with one child page that
\* root_page.add_child has attached
Destinations ==
    {{ExistingPage(1, RootPath, "Page")}} \cup
    {{[ExistingPage(1, RootPath, "Page") EXCEPT !.numchild = 1],
      ExistingPage(id, RootPath \o Segment(a), "TestPage")} :
        id \in Ids \ {1}, a \in Segments}

\* The snippets and the images of the destination before the import
ExistingSnippets == {[id |-> 1, text |-> PyStr(<<Text("old")>>), link_id |-> None]}
ExistingImages == {[id |-> 1, title |-> "old", file |-> "old.png"]}

\* The snippet records of a document: flat mappings with id, a text that may
\* be null and a reference to the page 2 of the source
SnippetTexts == {PyNone, PyStr(<<EmptyElement("b"), Text("note")>>), PyStr(<<Text("quote")>>)}
SnippetRecords == [id : Ids, text : SnippetTexts, link_id : {2}]
SnippetLists == {<<>>} \cup {<<a>> : a \in SnippetRecords}
                       \cup {<<a, b>> : a, b \in SnippetRecords}

\* The image records of a document: none, or one that replaces the image 1 or
\* is new
ImageRecord(id) == [id |-> id, title |-> "new", file |-> [name |-> "new.png"]]
ImageLists == {<<>>, <<ImageRecord(1)>>, <<ImageRecord(2)>>}

\* The pages of the documents given to the command and to the view: one page
\* record anywhere, or the root page and pages below it, with declared content
CallerDraws(n) ==
    {e \in ExportDraws(n) :
        /\ e.shape = "declared"
        /\ n > 1 => /\ e.first = RootPath
                    /\ \A k \in 1..n : e.pk[k] = k /\ e.ref[k] = 1 /\ e.segment[k] = 1}

----------------------------------------------------------------------------
(* The state *)

VARIABLES
    content_json,     \* the content.json as it was read
    destination,      \* the destination's Page table before the import
    content_data,     \* the document, which the import rewrites in place
    Page_objects,     \* the destination's Page table
    page_id_map,      \* update_page_ids' map from exported ids to destination ids
    results,          \* the results of update_page_foreign_keys
    existing_pages,   \* import_pages_content: the ids of the pages it loaded
    import_results,   \* import_pages_content: its result dict
    index,            \* import_pages_content: the page record the loop is at
    returned,         \* what import_pages_by_url returned
    pc,               \* where import_pages_by_url is
    caller,           \* who called import_pages_by_url
    options,          \* Command.handle: its options
    Snippet_objects,  \* the destination's TestSnippet table
    Image_objects,    \* the destination's image table
    caller_results,   \* the caller's results
    log,              \* what the caller has logged, or sent as messages
    caller_pc         \* where the caller is

import_vars == <<content_json, destination, content_data, Page_objects, page_id_map, results,
                 existing_pages, import_results, index, returned, pc>>

caller_vars == <<caller, options, Snippet_objects, Image_objects, caller_results, log, caller_pc>>

vars == <<import_vars, caller_vars>>

NoResult == [pending |-> TRUE]

\* import_pages_by_url called by a test: no options
NoOptions == [pages |-> TRUE, snippets |-> FALSE, images |-> FALSE]

Init ==
    /\ \E n \in 1..MaxPages : \E e \in ExportDraws(n) :
           content_json = [pages |-> Export(e), int_keys |-> {}]
    /\ destination \in Destinations
    /\ content_data = content_json
    /\ Page_objects = destination
    /\ page_id_map = <<>>
    /\ results = EmptyResult
    /\ existing_pages = {}
    /\ import_results = EmptyResult @@ [pages |-> <<>>]
    /\ index = 0
    /\ returned = NoResult
    /\ pc = "import_pages_by_url"
    /\ caller = "test"
    /\ options = NoOptions
    /\ Snippet_objects = {}
    /\ Image_objects = {}
    /\ caller_results = NoResult
    /\ log = <<>>
    /\ caller_pc = "pages"

\* import_pages_by_url, lines 115-129: neither the first page nor its parent exists
AnchorMissing ==
    /\ pc = "import_pages_by_url"
    /\ anchor_missing(content_data, Page_objects)
    /\ returned' = [failures |-> <<AnchorFailure(content_data.pages[1].content)>>]
    /\ pc' = "done"
    /\ UNCHANGED <<content_json, destination, content_data, Page_objects, page_id_map, results,
                   existing_pages, import_results, index>>
    /\ UNCHANGED caller_vars

\* content_data, page_id_map = update_page_ids(content_data)
UpdatePageIds ==
    /\ pc = "import_pages_by_url"
    /\ ~anchor_missing(content_data, Page_objects)
    /\ \E r \in {update_page_ids(content_data, Page_objects)} :
           /\ content_data' = r.content_data
           /\ page_id_map' = r.page_id_map
    /\ pc' = "update_page_foreign_keys"
    /\ UNCHANGED <<content_json, destination, Page_objects, results, existing_pages,
                   import_results, index, returned>>
    /\ UNCHANGED caller_vars

\* content_data, results = update_page_foreign_keys(content_data, page_id_map)
UpdatePageForeignKeys ==
    /\ pc = "update_page_foreign_keys"
    /\ \E r \in {update_page_foreign_keys(content_data, page_id_map)} :
           /\ content_data' = r.content_data
           /\ results' = r.results
           /\ pc' = IF r.raised = "" THEN "import_pages_content" ELSE "raised"
    /\ UNCHANGED <<content_json, destination, Page_objects, page_id_map, existing_pages,
                   import_results, index, returned>>
    /\ UNCHANGED caller_vars

\* import_pages_content, lines 356-357
ImportPagesContent ==
    /\ pc = "import_pages_content"
    /\ index = 0
    /\ existing_pages' = {page.id : page \in Page_objects}
    /\ import_results' = EmptyResult @@ [pages |-> <<>>]
    /\ index' = 1
    /\ UNCHANGED <<content_json, destination, content_data, Page_objects, page_id_map, results,
                   returned, pc>>
    /\ UNCHANGED caller_vars

\* One turn of the loop of import_pages_content; saved says whether save()
\* returned or raised
ImportPage(saved) ==
    /\ pc = "import_pages_content"
    /\ index \in 1..Len(content_data.pages)
    /\ LET page_record == content_data.pages[index]
           model_key == ModelKey(page_record)
           page_content == page_record.content @@
                               [content_type |-> ContentType(model_key), live_revision |-> None]
           page_id == page_content.pk
           located == locate_page(Page_objects, existing_pages, page_id, model_key)
           warnings == IF page_id \in existing_pages /\ located.class # ModelClass(model_key)
                       THEN <<ClassWarning(located, model_key)>> ELSE <<>>
           specific_page == update_page_fields(located, page_content)
           s == save(Page_objects, specific_page)
       IN  /\ content_data' = [content_data EXCEPT !.pages[index].content = page_content]
           /\ IF saved
              THEN /\ Page_objects' = s.objects
                   /\ import_results' =
                          [import_results EXCEPT
                              !.warnings = @ \o warnings,
                              !.pages = Append(@, [id |-> s.page.id, title |-> s.page.title])]
                   /\ index' = index + 1
                   /\ pc' = pc
              ELSE /\ Page_objects' = Page_objects
                   /\ import_results' =
                          [import_results EXCEPT
                              !.warnings = @ \o warnings,
                              !.failures = Append(@, SaveFailure(model_key, page_id))]
                   /\ index' = index
                   /\ pc' = "raised"
    /\ UNCHANGED <<content_json, destination, page_id_map, results, existing_pages, returned>>
    /\ UNCHANGED caller_vars

PageSaved == ImportPage(TRUE)
SaveRaised == ImportPage(FALSE)

\* import_pages_by_url, lines 136-140: results[key] = (results.get(key) or []) + import_results[key]
Return ==
    /\ pc = "import_pages_content"
    /\ index = Len(content_data.pages) + 1
    /\ returned' = [key \in DOMAIN import_results |->
                       (IF key \in DOMAIN results THEN results[key] ELSE <<>>)
                           \o import_results[key]]
    /\ pc' = "done"
    /\ UNCHANGED <<content_json, destination, content_data, Page_objects, page_id_map, results,
                   existing_pages, import_results, index>>
    /\ UNCHANGED caller_vars

Next ==
    \/ AnchorMissing
    \/ UpdatePageIds
    \/ UpdatePageForeignKeys
    \/ ImportPagesContent
    \/ PageSaved
    \/ SaveRaised
    \/ Return

Spec == Init /\ [][Next]_vars

----------------------------------------------------------------------------
(* The callers: Command.handle of importcontent and the view import_from_file *)

\* results[key] = value
SetKey(d, key, value) ==
    [k \in DOMAIN d \cup {key} |-> IF k = key THEN value ELSE d[k]]

\* importcontent.py, lines 48-55
HandleResults ==
    [pages |-> <<>>, snippets |-> <<>>, images |-> <<>>,
     failures |-> <<>>, errors |-> <<>>, warnings |-> <<>>]

\* The view imports pages, images and snippets
ViewOptions == [pages |-> TRUE, snippets |-> TRUE, images |-> TRUE]

\* What a caller emits: logger.critical, logger.error, logger.warning of the
\* command, messages.error, messages.warning, messages.success of the view
Emitted(band, messages) == [band |-> band, messages |-> messages]

\* messages.error(request, _("Import failed: %(reason)s") % {'reason': e})
ImportFailed(reason) == Emitted("error", <<Message("Import failed", None, reason, None, "")>>)

CallerInit ==
    /\ \E n \in 1..MaxPages : \E e \in CallerDraws(n) :
       \E snippets \in SnippetLists : \E images \in ImageLists :
           content_json = [pages |-> Export(e), int_keys |-> {},
                           snippets |-> ("testapp.TestSnippet" :> snippets),
                           images |-> images]
    /\ destination = {ExistingPage(1, RootPath, "Page")}
    /\ content_data = content_json
    /\ Page_objects = destination
    /\ page_id_map = <<>>
    /\ results = EmptyResult
    /\ existing_pages = {}
    /\ import_results = EmptyResult @@ [pages |-> <<>>]
    /\ index = 0
    /\ returned = NoResult
    /\ \/ caller = "handle" /\ options \in [pages : BOOLEAN, snippets : BOOLEAN, images : BOOLEAN]
       \/ caller = "import_from_file" /\ options = ViewOptions
    /\ pc = IF options.pages THEN "import_pages_by_url" ELSE "not called"
    /\ Snippet_objects = ExistingSnippets
    /\ Image_objects = ExistingImages
    /\ caller_results = NoResult
    /\ log = <<>>
    /\ caller_pc = "pages"

\* importcontent.py, line 56: the option pages is not set
HandleNoPages ==
    /\ caller = "handle" /\ caller_pc = "pages" /\ ~options.pages
    /\ caller_results' = HandleResults
    /\ caller_pc' = "snippets"
    /\ UNCHANGED <<import_vars, caller, options, Snippet_objects, Image_objects, log>>

\* importcontent.py, lines 57-59: import_pages_by_url has returned;
\* results['pages'] raises KeyError when the result has no pages
HandlePages ==
    /\ caller = "handle" /\ caller_pc = "pages" /\ pc = "done"
    /\ caller_results' = returned
    /\ caller_pc' = IF "pages" \in DOMAIN returned THEN "snippets" ELSE "raised"
    /\ UNCHANGED <<import_vars, caller, options, Snippet_objects, Image_objects, log>>

\* importcontent.py, line 57: import_pages_by_url has raised
HandlePagesRaised ==
    /\ caller = "handle" /\ caller_pc = "pages" /\ pc = "raised"
    /\ caller_pc' = "raised"
    /\ UNCHANGED <<import_vars, caller, options, Snippet_objects, Image_objects,
                   caller_results, log>>

\* importcontent.py, lines 60-63
HandleSnippets ==
    /\ caller = "handle" /\ caller_pc = "snippets"
    /\ IF options.snippets
       THEN \E r \in {import_snippets(content_data, Snippet_objects)} :
                /\ Snippet_objects' = r.objects
                /\ caller_results' = IF r.raised = ""
                                     THEN SetKey(caller_results, "snippets", r.imported_snippets)
                                     ELSE caller_results
                /\ caller_pc' = IF r.raised = "" THEN "images" ELSE "raised"
       ELSE /\ caller_pc' = "images"
            /\ UNCHANGED <<Snippet_objects, caller_results>>
    /\ UNCHANGED <<import_vars, caller, options, Image_objects, log>>

\* importcontent.py, lines 64-67
HandleImages ==
    /\ caller = "handle" /\ caller_pc = "images"
    /\ IF options.images
       THEN \E r \in {import_images(content_data.images, Image_objects)} :
                /\ Image_objects' = r.objects
                /\ caller_results' = SetKey(caller_results, "images", r.imported_images)
       ELSE UNCHANGED <<Image_objects, caller_results>>
    /\ caller_pc' = "report"
    /\ UNCHANGED <<import_vars, caller, options, Snippet_objects, log>>

\* importcontent.py, lines 68-73
HandleReport ==
    /\ caller = "handle" /\ caller_pc = "report"
    /\ log' = log
              \o (IF Len(caller_results.failures) > 0
                  THEN <<Emitted("critical", caller_results.failures)>> ELSE <<>>)
              \o (IF Len(caller_results.errors) > 0
                  THEN <<Emitted("error", caller_results.errors)>> ELSE <<>>)
              \o (IF Len(caller_results.warnings) > 0
                  THEN <<Emitted("warning", caller_results.warnings)>> ELSE <<>>)
    /\ caller_pc' = "done"
    /\ UNCHANGED <<import_vars, caller, options, Snippet_objects, Image_objects, caller_results>>

\* views.py, line 96: import_pages_by_url has returned
ViewPages ==
    /\ caller = "import_from_file" /\ caller_pc = "pages" /\ pc = "done"
    /\ caller_results' = returned
    /\ caller_pc' = "images"
    /\ UNCHANGED <<import_vars, caller, options, Snippet_objects, Image_objects, log>>

\* views.py, lines 96 and 99-102: import_pages_by_url has raised
ViewPagesRaised ==
    /\ caller = "import_from_file" /\ caller_pc = "pages" /\ pc = "raised"
    /\ log' = Append(log, ImportFailed("save"))
    /\ caller_pc' = "done"
    /\ UNCHANGED <<import_vars, caller, options, Snippet_objects, Image_objects, caller_results>>

\* views.py, line 97
ViewImages ==
    /\ caller = "import_from_file" /\ caller_pc = "images"
    /\ \E r \in {import_images(content_data.images, Image_objects)} :
           /\ Image_objects' = r.objects
           /\ caller_results' = SetKey(caller_results, "images", r.imported_images)
    /\ caller_pc' = "snippets"
    /\ UNCHANGED <<import_vars, caller, options, Snippet_objects, log>>

\* views.py, lines 98-102
ViewSnippets ==
    /\ caller = "import_from_file" /\ caller_pc = "snippets"
    /\ \E r \in {import_snippets(content_data, Snippet_objects)} :
           /\ Snippet_objects' = r.objects
           /\ IF r.raised = ""
              THEN /\ caller_results' = SetKey(caller_results, "snippets", r.imported_snippets)
                   /\ log' = log
                   /\ caller_pc' = "report"
              ELSE /\ caller_results' = caller_results
                   /\ log' = Append(log, ImportFailed(r.raised))
                   /\ caller_pc' = "done"
    /\ UNCHANGED <<import_vars, caller, options, Image_objects>>

\* views.py, lines 103-114: the else clause of the try; results['pages']
\* raises KeyError, outside the try's except, when the result has no pages
ViewReport ==
    /\ caller = "import_from_file" /\ caller_pc = "report"
    /\ IF "pages" \notin DOMAIN caller_results
       THEN /\ log' = log
            /\ caller_pc' = "raised"
       ELSE /\ log' = log
                      \o <<Emitted("success", <<>>)>>
                      \o (IF Len(caller_results.errors) > 0 \/ Len(caller_results.failures) > 0
                          THEN <<Emitted("error", caller_results.errors)>> ELSE <<>>)
                      \o (IF Len(caller_results.warnings) > 0
                          THEN <<Emitted("warning", caller_results.warnings)>> ELSE <<>>)
            /\ caller_pc' = "done"
    /\ UNCHANGED <<import_vars, caller, options, Snippet_objects, Image_objects, caller_results>>

CallerNext ==
    \/ AnchorMissing
    \/ UpdatePageIds
    \/ UpdatePageForeignKeys
    \/ ImportPagesContent
    \/ PageSaved
    \/ SaveRaised
    \/ Return
    \/ HandleNoPages
    \/ HandlePages
    \/ HandlePagesRaised
    \/ HandleSnippets
    \/ HandleImages
    \/ HandleReport
    \/ ViewPages
    \/ ViewPagesRaised
    \/ ViewImages
    \/ ViewSnippets
    \/ ViewReport

CallerSpec == CallerInit /\ [][CallerNext]_vars

----------------------------------------------------------------------------
(* What the properties speak of *)

Records == 1..Len(content_json.pages)

\* The page record as exported, and as the import has rewritten it
Exported(i) == content_json.pages[i].content
Rewritten(i) == content_data.pages[i].content

PathsIn(objects) == {page.path : page \in objects}
IdsIn(objects) == {page.id : page \in objects}
PagesAt(objects, path) == {page \in objects : page.path = path}

\* The record's path is the path of a page of the destination
Matched(i) == Exported(i).path \in PathsIn(destination)
DestinationId(path) == (CHOOSE page \in destination : page.path = path).id

ParentPath(path) == SubSeq(path, 1, Len(path) - 4)
FirstPath == Exported(1).path

\* Neither the first page nor its parent is in the destination
NoAnchor == FirstPath \notin PathsIn(destination) /\ ParentPath(FirstPath) \notin PathsIn(destination)
\* The first page is not in the destination, its parent is
ParentAnchor == FirstPath \notin PathsIn(destination) /\ ParentPath(FirstPath) \in PathsIn(destination)

\* update_page_ids has returned
IdsUpdated ==
    \/ pc \in {"update_page_foreign_keys", "import_pages_content", "raised"}
    \/ pc = "done" /\ "pages" \in DOMAIN returned

\* update_page_foreign_keys has returned
ForeignKeysUpdated ==
    \/ pc = "import_pages_content"
    \/ pc = "raised" /\ index > 0
    \/ pc = "done" /\ "pages" \in DOMAIN returned

\* import_pages_by_url has returned the results of an import
Imported == pc = "done" /\ "pages" \in DOMAIN returned

\* The page references of a value, in the order of the walk: each one
\* [link, kind, at], kind "anchor" for a page link of rich text and "chooser"
\* for the value of a PageChooserBlock, at the place of the reference: the
\* field, then the blocks down to it, [i, n] for the i-th block the schema
\* declares (of type n), the child n of a struct, the i-th node of rich text
At(i, n) == [i |-> i, n |-> n]

RECURSIVE Concat(_)
Concat(ss) == IF Len(ss) = 0 THEN <<>> ELSE Concat(Front(ss)) \o Last(ss)

AnchorRefs(value, at) ==
    IF value.kind = "str"
    THEN Concat([k \in 1..Len(value.v) |->
                    IF is_page_link(value.v[k])
                    THEN <<[link |-> value.v[k].id, kind |-> "anchor",
                            at |-> Append(at, At(k, "a"))]>>
                    ELSE <<>>])
    ELSE <<>>

RECURSIVE StreamRefs(_, _, _)
RECURSIVE StructRefs(_, _, _)
RECURSIVE BlockRefs(_, _, _)

StreamRefs(stream_data, stream_block, at) ==
    LET blocks == SelectSeq(stream_data, LAMBDA b : b.type \in ChildNames(stream_block))
    IN  Concat([k \in 1..Len(blocks) |->
                   BlockRefs(blocks[k].value, ChildBlock(stream_block, blocks[k].type),
                             Append(at, At(k, blocks[k].type)))])

StructRefs(children, block, at) ==
    LET declared == SelectSeq(children, LAMBDA c : c.name \in ChildNames(block))
    IN  Concat([k \in 1..Len(declared) |->
                   BlockRefs(declared[k].value, ChildBlock(block, declared[k].name),
                             Append(at, At(0, declared[k].name)))])

BlockRefs(value, block, at) ==
    IF block.kind = "PageChooserBlock"
    THEN IF value.kind = "int"
         THEN <<[link |-> value.v, kind |-> "chooser", at |-> at]>> ELSE <<>>
    ELSE IF block.kind = "RichTextBlock" THEN AnchorRefs(value, at)
    ELSE IF block.kind = "StructBlock"
    THEN IF value.kind = "dict" THEN StructRefs(value.v, block, at) ELSE <<>>
    ELSE IF block.kind = "StreamBlock"
    THEN IF value.kind = "list" THEN StreamRefs(value.v, block, at) ELSE <<>>
    ELSE <<>>

TextRefs(content) == AnchorRefs(content.text, <<At(0, "text")>>)
BodyRefs(content) == StreamRefs(content.body, TestPageBody, <<At(0, "body")>>)

\* All the page references of a page record's content, or of a page
ContentRefs(content) == TextRefs(content) \o BodyRefs(content)

IsChooser(ref) == ref.kind = "chooser"

\* refs has a reference at the place of ref, to the page id
RefersTo(refs, ref, id) ==
    \E k \in 1..Len(refs) : refs[k].at = ref.at /\ refs[k].link = id

----------------------------------------------------------------------------
(* Properties *)

\* C2: once update_page_ids has returned, for every page record whose path is
\* the path of a page of the destination, the map sends the record's exported
\* pk to that page's id, and the record's pk in the document is that id.
C2_MatchedIdsRewritten ==
    IdsUpdated =>
        \A i \in Records :
            Matched(i) =>
                /\ Exported(i).pk \in DOMAIN page_id_map
                /\ page_id_map[Exported(i).pk] = DestinationId(Exported(i).path)
                /\ Rewritten(i).pk = DestinationId(Exported(i).path)

\* C2's case: update_page_ids has just rewritten a pk to another id
C2_Witness ==
    /\ pc = "update_page_foreign_keys"
    /\ \E i \in Records :
           /\ Matched(i)
           /\ Exported(i).pk # DestinationId(Exported(i).path)
           /\ Rewritten(i).pk = DestinationId(Exported(i).path)

\* C3: once update_page_ids has returned, the keys of the map are exactly the
\* exported pks (N entries for N pks), and the value for a record is the id of
\* a page of the destination when its path matched, and its own pk, which the
\* document keeps, when it did not.
C3_MapTotal ==
    IdsUpdated =>
        /\ DOMAIN page_id_map = {Exported(i).pk : i \in Records}
        /\ Cardinality(DOMAIN page_id_map) = Cardinality({Exported(i).pk : i \in Records})
        /\ \A i \in Records :
               IF Matched(i)
               THEN page_id_map[Exported(i).pk] \in IdsIn(destination)
               ELSE /\ page_id_map[Exported(i).pk] = Exported(i).pk
                    /\ Rewritten(i).pk = Exported(i).pk

\* C3's case: a map of two entries, one for a matched and one for an unmatched record
C3_Witness ==
    /\ pc = "update_page_foreign_keys"
    /\ Cardinality(DOMAIN page_id_map) = 2
    /\ \E i, j \in Records :
           /\ Matched(i) /\ page_id_map[Exported(i).pk] # Exported(i).pk
           /\ ~Matched(j) /\ page_id_map[Exported(j).pk] = Exported(j).pk

\* C5: when neither the first record's path nor its parent path is in the
\* destination, import_pages_by_url returns one failure and nothing else, and
\* neither the document nor the destination's pages change.
C5_AnchorFailure ==
    NoAnchor =>
        /\ pc \in {"import_pages_by_url", "done"}
        /\ content_data = content_json
        /\ Page_objects = destination
        /\ pc = "done" => DOMAIN returned = {"failures"} /\ Len(returned.failures) = 1

\* C5's case: the import has returned the anchor failure
C5_Witness ==
    /\ NoAnchor
    /\ pc = "done"
    /\ Len(returned.failures) = 1
    /\ ParentPath(FirstPath) # <<>>

\* C7: when the first record's path is not in the destination and its parent
\* path is, an import that returns reports no failure, and the destination
\* then has exactly one page at the first record's path, with the imported title.
C7_ParentFallback ==
    ParentAnchor /\ pc = "done" =>
        /\ "failures" \in DOMAIN returned /\ Len(returned.failures) = 0
        /\ Cardinality(PagesAt(Page_objects, FirstPath)) = 1
        /\ \A page \in PagesAt(Page_objects, FirstPath) : page.title = Exported(1).title

\* C7's case: the import has returned and the first page is new under its parent
C7_Witness ==
    /\ ParentAnchor
    /\ pc = "done"
    /\ PagesAt(destination, FirstPath) = {}
    /\ \E page \in PagesAt(Page_objects, FirstPath) :
           page.title = Exported(1).title /\ page.id \notin IdsIn(destination)

----------------------------------------------------------------------------
(* Properties the import does not have *)

\* The id under which the import saved the page of record i, and that page
PersistedId(i) == returned.pages[i].id
Persisted(i) == CHOOSE page \in Page_objects : page.id = PersistedId(i)

\* C1: after an import that returned without failure, wherever record A refers
\* to record B of the same document (foreign key, rich-text anchor, block of
\* the body), the page saved for A, a page of A's model, refers at the same
\* place to the id under which B's page was saved; and a record without a
\* path match is saved under the id the map gives its pk.
C1_CrossReferencesPreserved ==
    Imported /\ Len(returned.failures) = 0 =>
        \A i, j \in Records :
            /\ Persisted(i).class = "TestPage" =>
                   /\ Exported(i).link = Exported(j).pk => Persisted(i).link = PersistedId(j)
                   /\ \A k \in 1..Len(ContentRefs(Exported(i))) :
                          ContentRefs(Exported(i))[k].link = Exported(j).pk =>
                              RefersTo(ContentRefs(Persisted(i)), ContentRefs(Exported(i))[k],
                                       PersistedId(j))
            /\ ~Matched(i) => PersistedId(i) = page_id_map[Exported(i).pk]

\* C4: saving a page record whose path matched no page of the destination
\* adds one page, at the record's path and under a new id, and leaves every
\* page the destination had as it was.
C4_UnmatchedIsInserted ==
    [][(/\ pc = "import_pages_content"
        /\ index \in Records
        /\ index' = index + 1
        /\ ~Matched(index))
       => /\ Page_objects \subseteq Page_objects'
          /\ \E page \in Page_objects' \ Page_objects :
                 page.path = Exported(index).path /\ page.id \notin IdsIn(Page_objects)]_vars

\* C6: when the destination has a page at a record's path, the import that
\* returns has reused that page's id for the record, and the destination has
\* exactly one page at that path: that page, with the record's title.
C6_ExactMatchUpdates ==
    Imported =>
        \A i \in Records :
            Matched(i) =>
                /\ Rewritten(i).pk = DestinationId(Exported(i).path)
                /\ Cardinality(PagesAt(Page_objects, Exported(i).path)) = 1
                /\ \A page \in PagesAt(Page_objects, Exported(i).path) :
                       /\ page.id = DestinationId(Exported(i).path)
                       /\ page.title = Exported(i).title

\* C8: once update_page_foreign_keys has returned, every page id that is a key
\* of the map and is the value of a PageChooserBlock of a body (in the stream,
\* in a struct, in a nested stream) has been replaced, at its place, by its
\* mapped value.
C8_BlockTreeRemapped ==
    ForeignKeysUpdated =>
        \A i \in Records :
            LET before == SelectSeq(BodyRefs(Exported(i)), IsChooser)
            IN  \A k \in 1..Len(before) :
                    before[k].link \in DOMAIN page_id_map =>
                        RefersTo(BodyRefs(Rewritten(i)), before[k], page_id_map[before[k].link])

\* The warning the rewriting owes a reference that is no key of the map
NotFoundWarning(ref, page_id, field_name) ==
    IF ref.kind = "chooser"
    THEN StreamBlockWarning(ref.link, page_id, field_name)
    ELSE RichTextWarning(ref.link, page_id, field_name)

IsUnresolved(ref) == ref.link \notin DOMAIN page_id_map
IsNotFoundWarning(message) ==
    message.text \in {"Page not found in RichText", "Page not found in StreamBlock"}

NotFoundWarnings(refs, page_id, field_name) ==
    LET unresolved == SelectSeq(refs, IsUnresolved)
    IN  [k \in 1..Len(unresolved) |-> NotFoundWarning(unresolved[k], page_id, field_name)]

RECURSIVE ExpectedWarnings(_)
ExpectedWarnings(n) ==
    IF n = 0 THEN <<>>
    ELSE ExpectedWarnings(n - 1)
         \o NotFoundWarnings(TextRefs(Exported(n)), Rewritten(n).pk, "text")
         \o NotFoundWarnings(BodyRefs(Exported(n)), Rewritten(n).pk, "body")

\* C9: once update_page_foreign_keys has returned, every page id that is no
\* key of the map and stands in a rich-text anchor or in a PageChooserBlock is
\* unchanged at its place, the warnings about pages not found are exactly one
\* for each of these occurrences, naming the field and the page that hold it,
\* and there are no errors and no failures.
C9_UnresolvedWarned ==
    ForeignKeysUpdated =>
        /\ Len(results.errors) = 0 /\ Len(results.failures) = 0
        /\ \A i \in Records :
               LET before == ContentRefs(Exported(i))
               IN  \A k \in 1..Len(before) :
                       IsUnresolved(before[k]) =>
                           RefersTo(ContentRefs(Rewritten(i)), before[k], before[k].link)
        /\ SelectSeq(results.warnings, IsNotFoundWarning) = ExpectedWarnings(Len(content_json.pages))

\* C10: once update_page_foreign_keys has returned, the link of every page
\* record (a nullable foreign key to a page) that was a key of the map is the
\* mapped value, and a link that was no key is null, with one warning.
C10_ForeignKeyRemapped ==
    ForeignKeysUpdated =>
        \A i \in Records :
            Exported(i).link # None =>
                IF Exported(i).link \in DOMAIN page_id_map
                THEN Rewritten(i).link = page_id_map[Exported(i).link]
                ELSE /\ Rewritten(i).link = None
                     /\ \E k \in 1..Len(results.warnings) :
                            /\ results.warnings[k].link = Exported(i).link
                            /\ results.warnings[k].field = "link"

----------------------------------------------------------------------------
(* Properties of the rewriting and of the conversion *)

\* The type-tags of the pairs of a stream that the schema does not declare,
\* those of the nested streams included
RECURSIVE UndeclaredTags(_, _)
UndeclaredTags(stream_data, stream_block) ==
    Concat([k \in 1..Len(stream_data) |->
               IF stream_data[k].type \notin ChildNames(stream_block)
               THEN <<stream_data[k].type>>
               ELSE IF /\ ChildBlock(stream_block, stream_data[k].type).kind = "StreamBlock"
                       /\ stream_data[k].value.kind = "list"
               THEN UndeclaredTags(stream_data[k].value.v,
                                   ChildBlock(stream_block, stream_data[k].type))
               ELSE <<>>])

RECURSIVE DocumentUndeclaredTags(_)
DocumentUndeclaredTags(n) ==
    IF n = 0 THEN <<>>
    ELSE DocumentUndeclaredTags(n - 1) \o UndeclaredTags(Exported(n).body, TestPageBody)

\* after is before with the same pairs in the same order: an undeclared pair
\* as it was, a declared pair with the value update_page_fks_in_block gives
\* it, a nested stream of the same shape in its turn
RECURSIVE StreamShapeKept(_, _, _, _)
StreamShapeKept(before, after, stream_block, page_id) ==
    /\ Len(after) = Len(before)
    /\ \A k \in 1..Len(before) :
           /\ after[k] = [before[k] EXCEPT !.value = after[k].value]
           /\ IF before[k].type \notin ChildNames(stream_block)
              THEN after[k] = before[k]
              ELSE LET child_block == ChildBlock(stream_block, before[k].type)
                   IN  /\ after[k] = update_page_fks_in_block(
                                         before[k], child_block, page_id, "body",
                                         page_id_map).value
                       /\ child_block.kind = "StreamBlock" =>
                              /\ after[k].value.kind = "list"
                              /\ StreamShapeKept(before[k].value.v, after[k].value.v,
                                                 child_block, page_id)

\* C12: once update_page_foreign_keys has returned, the body of every page
\* record has the pairs it had, in the same order and of the same type-tags:
\* a pair of an undeclared type-tag as it was, a pair of a declared one
\* rewritten in its place by its child block; and the warnings that name an
\* undeclared type-tag are as many as the pairs that carry it.
C12_StreamShapePreserved ==
    ForeignKeysUpdated =>
        /\ \A i \in Records :
               StreamShapeKept(Exported(i).body, Rewritten(i).body, TestPageBody,
                               Rewritten(i).pk)
        /\ LET tags == DocumentUndeclaredTags(Len(content_json.pages))
           IN  \A t \in {tags[k] : k \in 1..Len(tags)} :
                   Len(SelectSeq(results.warnings,
                                 LAMBDA m : m.text = "Block type not found" /\ m.type = t))
                       = Len(SelectSeq(tags, LAMBDA tag : tag = t))

\* C12's case: a body with pairs of an undeclared type-tag, in which a
\* declared pair has been rewritten
C12_Witness ==
    /\ pc = "import_pages_content"
    /\ \E i \in Records :
           /\ UndeclaredTags(Exported(i).body, TestPageBody) # <<>>
           /\ Rewritten(i).body # Exported(i).body
           /\ Len(Rewritten(i).body) = Len(Exported(i).body)

\* The rich text after is the rich text before but for the ids of its page links
RichTextAlike(before, after) ==
    /\ after.kind = before.kind
    /\ before.kind = "str" =>
           /\ Len(after.v) = Len(before.v)
           /\ \A k \in 1..Len(before.v) :
                  /\ after.v[k].tag = before.v[k].tag
                  /\ after.v[k].text = before.v[k].text
                  /\ after.v[k].linktype = before.v[k].linktype
                  /\ ~is_page_link(before.v[k]) => after.v[k].id = before.v[k].id

\* The value after is the value before but for the page ids in it: of the
\* same Python type, with the same type-tags, the same child names and the
\* same leaves that are no page references
RECURSIVE ValueAlike(_, _, _)
ValueAlike(before, after, block) ==
    IF block.kind = "PageChooserBlock" THEN after.kind = before.kind
    ELSE IF block.kind = "RichTextBlock" THEN RichTextAlike(before, after)
    ELSE IF block.kind = "StructBlock"
    THEN /\ after.kind = before.kind
         /\ Len(after.v) = Len(before.v)
         /\ \A k \in 1..Len(before.v) :
                /\ after.v[k].name = before.v[k].name
                /\ IF before.v[k].name \in ChildNames(block)
                   THEN ValueAlike(before.v[k].value, after.v[k].value,
                                   ChildBlock(block, before.v[k].name))
                   ELSE after.v[k] = before.v[k]
    ELSE IF block.kind = "StreamBlock"
    THEN /\ after.kind = before.kind
         /\ Len(after.v) = Len(before.v)
         /\ \A k \in 1..Len(before.v) :
                /\ after.v[k].type = before.v[k].type
                /\ IF before.v[k].type \in ChildNames(block)
                   THEN ValueAlike(before.v[k].value, after.v[k].value,
                                   ChildBlock(block, before.v[k].type))
                   ELSE after.v[k] = before.v[k]
    ELSE after = before

\* C13: once update_page_foreign_keys has returned, the body of every page
\* record is the exported body but for page ids: the same type-tags, the same
\* struct child names, the same nesting, every value of the kind it had.
C13_StructurePreserved ==
    ForeignKeysUpdated =>
        \A i \in Records :
            ValueAlike(PyList(Exported(i).body), PyList(Rewritten(i).body), TestPageBody)

\* C14: when saving a page record raises, import_pages_content records one
\* failure and goes on with the next record.
C14_FailureDoesNotStop ==
    [][Len(import_results'.failures) > Len(import_results.failures)
       => /\ Len(import_results'.failures) = Len(import_results.failures) + 1
          /\ pc' = "import_pages_content"
          /\ index' = index + 1]_vars

\* output holds, in their order, the blocks of input that the schema
\* declares, each with its type and its value and nothing else, the value of
\* a nested stream converted in its turn
RECURSIVE ConversionOf(_, _, _)
ConversionOf(input, output, stream_block) ==
    LET declared == SelectSeq(input, LAMBDA b : b.type \in ChildNames(stream_block))
    IN  /\ Len(output) = Len(declared)
        /\ \A k \in 1..Len(declared) :
               /\ DOMAIN output[k] = {"type", "value"}
               /\ output[k].type = declared[k].type
               /\ IF ChildBlock(stream_block, declared[k].type).kind = "StreamBlock"
                  THEN /\ output[k].value.kind = "list"
                       /\ ConversionOf(declared[k].value.v, output[k].value.v,
                                       ChildBlock(stream_block, declared[k].type))
                  ELSE output[k].value = declared[k].value

\* The page record import_pages_content has saved last, and its page
LastSaved == index - 1
LastSavedPage == CHOOSE page \in Page_objects : page.id = Last(import_results.pages).id

\* C20: the body of a TestPage that import_pages_content has just saved is
\* the conversion of the record's body: the blocks of a declared type-tag in
\* their order, with type and value only, a nested stream converted by the
\* same rule and every other value as it was.
C20_StreamImportData ==
    index >= 2 /\ Len(import_results.pages) = LastSaved =>
        (LastSavedPage.class = "TestPage" =>
            ConversionOf(Rewritten(LastSaved).body, LastSavedPage.body, TestPageBody))

\* C20's case: a saved body that lost blocks of an undeclared type-tag, at
\* the top and in a nested stream
C20_Witness ==
    /\ index >= 2 /\ Len(import_results.pages) = LastSaved
    /\ LastSavedPage.class = "TestPage"
    /\ Len(UndeclaredTags(Rewritten(LastSaved).body, TestPageBody)) = 2
    /\ Len(LastSavedPage.body) = Len(Rewritten(LastSaved).body) - 1
    /\ UndeclaredTags(LastSavedPage.body, TestPageBody) = <<>>

\* The messages the rewriting of record i produces: those of its text, then
\* those of the blocks of its body, block by block
BlockMessages(block_data, stream_block, page_id) ==
    IF block_data.type \in ChildNames(stream_block)
    THEN update_page_fks_in_block(block_data, ChildBlock(stream_block, block_data.type),
                                  page_id, "body", page_id_map).result
    ELSE [EmptyResult EXCEPT !.warnings = <<BlockTypeWarning(block_data.type, page_id, "body")>>]

RewriteMessages(i, key) ==
    update_page_fks_in_rich_text(Exported(i).text, Rewritten(i).pk, "text", page_id_map).result[key]
    \o Concat([k \in 1..Len(Exported(i).body) |->
                  BlockMessages(Exported(i).body[k], TestPageBody, Rewritten(i).pk)[key]])

RECURSIVE DocumentMessages(_, _)
DocumentMessages(n, key) ==
    IF n = 0 THEN <<>> ELSE DocumentMessages(n - 1, key) \o RewriteMessages(n, key)

\* The messages of the rewriting come first, those of the saving after them
Accumulated ==
    \A key \in {"warnings", "errors", "failures"} :
        returned[key] = DocumentMessages(Len(content_json.pages), key) \o import_results[key]

\* C18: what import_pages_by_url returns has the lists pages, warnings, errors
\* and failures, and each of the last three holds the messages of the
\* rewriting, record by record and block by block, each once, followed by the
\* messages of the saving.
C18_MessagesAccumulated ==
    pc = "done" =>
        /\ {"pages", "warnings", "errors", "failures"} \subseteq DOMAIN returned
        /\ Accumulated

----------------------------------------------------------------------------
(* Properties of the callers and of the snippet import *)

\* import_snippets has returned to the caller
SnippetsImported ==
    /\ options.snippets
    /\ \/ caller = "handle" /\ caller_pc \in {"images", "report", "done"}
       \/ /\ caller = "import_from_file"
          /\ \/ caller_pc \in {"report", "raised"}
             \/ caller_pc = "done" /\ "snippets" \in DOMAIN caller_results

\* The snippet records of the document, and the last of them with an id
DocumentSnippets == content_json.snippets["testapp.TestSnippet"]
LastWithId(id) ==
    DocumentSnippets[CHOOSE l \in 1..Len(DocumentSnippets) :
                        /\ DocumentSnippets[l].id = id
                        /\ \A m \in (l + 1)..Len(DocumentSnippets) : DocumentSnippets[m].id # id]

\* C19: after import_snippets, the destination has for every snippet record
\* one snippet of the record's id, with the values of the last record of that
\* id as they are in the document (the page reference not mapped); the
\* snippets of other ids are as they were; and the caller has one summary for
\* each record.
C19_SnippetsOverwritten ==
    SnippetsImported =>
        /\ \A k \in 1..Len(DocumentSnippets) :
               /\ Cardinality({row \in Snippet_objects : row.id = DocumentSnippets[k].id}) = 1
               /\ LastWithId(DocumentSnippets[k].id) \in Snippet_objects
        /\ \A row \in ExistingSnippets :
               (\A k \in 1..Len(DocumentSnippets) : DocumentSnippets[k].id # row.id)
                   => row \in Snippet_objects
        /\ \A row \in Snippet_objects :
               \/ row \in ExistingSnippets
               \/ \E k \in 1..Len(DocumentSnippets) : DocumentSnippets[k].id = row.id
        /\ Len(caller_results.snippets) = Len(DocumentSnippets)

\* C19's case: two records of the id of a snippet of the destination, the
\* second with another text, whose page reference the map sends elsewhere
C19_Witness ==
    /\ SnippetsImported
    /\ Len(DocumentSnippets) = 2
    /\ DocumentSnippets[1].id = DocumentSnippets[2].id
    /\ DocumentSnippets[1].text # DocumentSnippets[2].text
    /\ \E row \in ExistingSnippets : row.id = DocumentSnippets[1].id
    /\ DocumentSnippets[2] \in Snippet_objects
    /\ DocumentSnippets[2].link_id \in DOMAIN page_id_map
    /\ page_id_map[DocumentSnippets[2].link_id] # DocumentSnippets[2].link_id

\* An exception has left import_pages_by_url
PagesRaised == pc = "raised"

\* An exception has left import_snippets: the command ends by it, the view
\* reports it
SnippetsRaised ==
    \/ /\ caller = "handle" /\ caller_pc = "raised"
       /\ pc # "raised" /\ "pages" \in DOMAIN caller_results
    \/ /\ caller = "import_from_file" /\ caller_pc = "done"
       /\ Len(log) > 0 /\ Last(log) = ImportFailed("TypeError")

\* C15: when an exception has left the page phase or the snippet phase, the
\* pages, or the snippets, of the destination are as they were before it.
C15_PhaseAtomic ==
    /\ PagesRaised => Page_objects = destination
    /\ SnippetsRaised => Snippet_objects = ExistingSnippets

\* import_pages_by_url has returned the anchor failure
AnchorFailed == pc = "done" /\ DOMAIN returned = {"failures"}

\* C16: once import_pages_by_url has returned the anchor failure, the pages,
\* the snippets and the images of the destination stay as they were, in the
\* command and in the view.
C16_AnchorFailureStops ==
    AnchorFailed =>
        /\ Page_objects = destination
        /\ Snippet_objects = ExistingSnippets
        /\ Image_objects = ExistingImages

\* The caller has ended: it returned, or an exception has left it
CallerEnded == caller_pc \in {"done", "raised"}

\* C17: when import_pages_by_url has returned failures, the caller ends by
\* returning and has emitted these failures in a band of their own, which is
\* not the band of the errors, of the warnings or of the success message.
C17_FailuresSurfaced ==
    CallerEnded /\ pc = "done" /\ Len(returned.failures) > 0 =>
        /\ caller_pc = "done"
        /\ \E k \in 1..Len(log) :
               /\ log[k].messages = returned.failures
               /\ log[k].band \notin {"error", "warning", "success"}

\* The value has a page-link anchor
HasPageLink(value) ==
    value.kind = "str" /\ \E k \in 1..Len(value.v) : is_page_link(value.v[k])

\* C11: once update_page_foreign_keys has returned, the text (a rich-text
\* field) of every page record that had no page-link anchor in it, a null
\* value and a value with minimized elements included, is the exported value,
\* and no warning names that field of that page.
C11_RichTextIdentity ==
    ForeignKeysUpdated =>
        \A i \in Records :
            ~HasPageLink(Exported(i).text) =>
                /\ Rewritten(i).text = Exported(i).text
                /\ \A k \in 1..Len(results.warnings) :
                       ~(/\ results.warnings[k].field = "text"
                         /\ results.warnings[k].page = Rewritten(i).pk)

----------------------------------------------------------------------------
(* Properties of the destination tree and of the id map *)

\* The pages of objects one segment below the page
ChildrenOf(objects, page) ==
    {child \in objects : Len(child.path) > 0 /\ ParentPath(child.path) = page.path}

\* Every page's depth is the number of segments of its path, and its numchild
\* the number of pages one segment below it
TreeInvariants(objects) ==
    \A page \in objects :
        /\ page.depth = Len(page.path) \div steplen
        /\ page.numchild = Cardinality(ChildrenOf(objects, page))

\* Every record of the document is saved as a new page: its path is the path
\* of no page of the destination, and its pk the id of none
AllInserted ==
    \A i \in Records : ~Matched(i) /\ Exported(i).pk \notin IdsIn(destination)

\* C21: after an import that returned and that saved every record as a new
\* page, below a parent the destination had, every page's depth is the number
\* of segments of its path and every page's numchild is the number of pages
\* one segment below it.
C21_TreeInvariants ==
    (Imported /\ AllInserted /\ TreeInvariants(destination)) => TreeInvariants(Page_objects)

\* No two keys of the map have one value
Injective(map) ==
    \A a, b \in DOMAIN map : map[a] = map[b] => a = b

\* C22: once update_page_ids has returned, no two exported ids of the document
\* (its records have distinct ids and distinct paths) are mapped to one
\* destination id, whatever the destination; and the import that returns
\* has saved no two records onto one page.
C22_MapInjective ==
    /\ IdsUpdated => Injective(page_id_map)
    /\ Imported => \A i, j \in Records : PersistedId(i) = PersistedId(j) => i = j

====
